---- MODULE Spec2Model ----
(***************************************************************************)
(* Follow-up campaign eligibility and dispatch of OpenHouseDesk.           *)
(*                                                                         *)
(*   get_eligible_visitors   src/database-enhanced-forms.sql               *)
(*   serve / logFollowUp     src/supabase/functions/send-follow-up/index.ts*)
(*   replaceTemplateVariables  (same file)                                 *)
(*                                                                         *)
(* Text values are abstracted to what the code tests of them: a contact    *)
(* field is 0 (the empty string / SQL NULL) or a positive number naming an *)
(* address; a template is "" or a non-empty token. Where rendering is the  *)
(* subject (SpecRender) a template is a sequence of text runs and          *)
(* placeholders.                                                           *)
(***************************************************************************)
EXTENDS Integers, Sequences, FiniteSets, TLC

(* ------------------------------ bounds -------------------------------- *)
NumVisitors == 2
MaxSends == 2
MaxStoreErrors == 1
MaxFeedback == 2
MaxTemplateLen == 3

(* ----------------------------- value sets ----------------------------- *)
NULL == "NULL"
Visitors == 1..NumVisitors
Workers == {1, 2}
Properties == {"p1", "p2"}
CampaignIds == {"c1", "c2"}
MessageTypes == {"email", "sms", "both"}
TriggerConditions == {"interested", "all", "no_feedback", "manual"}

VARIABLES
  visitors,             \* table visitors: id -> [email, phone, property_id]
  feedback,             \* table feedback: visitor id -> rows (interested) in insertion order
  unsubscribes,         \* table unsubscribes: set of rows
  follow_up_campaigns,  \* table follow_up_campaigns: set of rows
  admins,               \* table admins: set of admin ids
  follow_up_logs,       \* table follow_up_logs: rows in insertion order
  inv,                  \* the running invocations of serve, one per worker slot
  calls,                \* every call of sendEmail / sendSMS made so far, in order
  history,              \* one record per invocation of serve: request, what it resolved, response
  storeErrors,          \* inserts into follow_up_logs the store has rejected so far
  eligibleVisitors,     \* the last get_eligible_visitors rpc and the table it returned
  rendered,             \* a call of replaceTemplateVariables: its arguments and its result
  env,                  \* Deno.env: which provider credentials are set
  form                  \* the campaign form of the admin dashboard and what its submission did

vars == <<visitors, feedback, unsubscribes, follow_up_campaigns, admins,
          follow_up_logs, inv, calls, history, storeErrors, eligibleVisitors, rendered, env, form>>

data == <<visitors, feedback, unsubscribes, follow_up_campaigns, admins>>

Range(s) == {s[k] : k \in DOMAIN s}

(* ------------------------- get_eligible_visitors ---------------------- *)

\* LEFT JOIN follow_up_campaigns c ON c.id = campaign_id_param: the row, or all NULLs.
NullCampaign ==
  [id |-> NULL, property_id |-> NULL, admin_id |-> NULL, message_type |-> NULL,
   trigger_condition |-> NULL, email_subject |-> "", email_template |-> "",
   sms_template |-> ""]

CampaignRow(cid) ==
  IF \E c \in follow_up_campaigns : c.id = cid
  THEN CHOOSE c \in follow_up_campaigns : c.id = cid
  ELSE NullCampaign

\* LEFT JOIN feedback f ON v.id = f.visitor_id: one joined row per feedback row,
\* or a single all-NULL row when the visitor has none.
FeedbackJoin(v) ==
  IF feedback[v] = <<>>
  THEN << [present |-> FALSE, interested |-> NULL] >>
  ELSE [k \in DOMAIN feedback[v] |-> [present |-> TRUE, interested |-> feedback[v][k]]]

\* UnsubscribeMatch with the two type lists exchanged.
UnsubscribeMatch_TypesSwapped(v) ==
  \E u \in unsubscribes :
    \/ (u.email # 0 /\ u.email = visitors[v].email /\ u.unsubscribe_type \in {"sms", "both"})
    \/ (u.phone # 0 /\ u.phone = visitors[v].phone /\ u.unsubscribe_type \in {"email", "both"})

\* LEFT JOIN unsubscribes u ON (...) ... WHERE u.id IS NULL: some row matches.
UnsubscribeMatch(v) ==
  \E u \in unsubscribes :
    \/ (u.email # 0 /\ u.email = visitors[v].email /\ u.unsubscribe_type \in {"email", "both"})
    \/ (u.phone # 0 /\ u.phone = visitors[v].phone /\ u.unsubscribe_type \in {"sms", "both"})

\* TriggerFilter whose 'interested' case only asks for a feedback row.
TriggerFilter_AnyFeedback(c, f) ==
  CASE c.trigger_condition = "interested" -> f.present
    [] c.trigger_condition = "no_feedback" -> ~f.present
    [] c.trigger_condition = "all" -> TRUE
    [] c.trigger_condition = "manual" -> TRUE
    [] OTHER -> FALSE

\* CASE ... END of the WHERE clause.
TriggerFilter(c, f) ==
  CASE c.trigger_condition = "interested" -> (f.present /\ f.interested = "t")
    [] c.trigger_condition = "no_feedback" -> ~f.present
    [] c.trigger_condition = "all" -> TRUE
    [] c.trigger_condition = "manual" -> TRUE
    [] OTHER -> FALSE

\* AlreadySent with the status test inverted (status IN ('failed')).
AlreadySent_Inverted(v, cid) ==
  \E k \in DOMAIN follow_up_logs :
    /\ follow_up_logs[k].visitor_id = v
    /\ follow_up_logs[k].campaign_id = cid
    /\ follow_up_logs[k].status \in {"failed"}

\* AlreadySent with the status test dropped: any earlier row blocks the visitor.
AlreadySent_AnyStatus(v, cid) ==
  \E k \in DOMAIN follow_up_logs :
    /\ follow_up_logs[k].visitor_id = v
    /\ follow_up_logs[k].campaign_id = cid

\* NOT EXISTS (SELECT 1 FROM follow_up_logs fl WHERE ...).
AlreadySent(v, cid) ==
  \E k \in DOMAIN follow_up_logs :
    /\ follow_up_logs[k].visitor_id = v
    /\ follow_up_logs[k].campaign_id = cid
    /\ follow_up_logs[k].status \notin {"failed"}

\* PropertyFilter in which a supplied property_id_param replaces the campaign's property.
PropertyFilter_Override(v, c, pid) ==
  IF pid # NULL
  THEN visitors[v].property_id = pid
  ELSE (c.property_id = NULL \/ visitors[v].property_id = c.property_id)

\* The two property conditions of the WHERE clause; a comparison with a NULL property_id
\* is not true.
PropertyFilter(v, c, pid) ==
  /\ (pid = NULL \/ visitors[v].property_id = pid)
  /\ (c.property_id = NULL \/ visitors[v].property_id = c.property_id)

ResultRow(v, f) ==
  [visitor_id |-> v,
   visitor_email |-> visitors[v].email,
   visitor_phone |-> visitors[v].phone,
   property_id |-> visitors[v].property_id,
   interested |-> (f.present /\ f.interested = "t"),
   has_feedback |-> f.present]

\* The rows the query returns for visitor v.
VisitorRows(v, cid, pid) ==
  LET c == CampaignRow(cid)
      joined == FeedbackJoin(v)
      kept == SelectSeq(joined, LAMBDA f : TriggerFilter(c, f))
  IN IF PropertyFilter(v, c, pid) /\ ~UnsubscribeMatch(v) /\ ~AlreadySent(v, cid)
     THEN [k \in DOMAIN kept |-> ResultRow(v, kept[k])]
     ELSE <<>>

RECURSIVE RowsUpTo(_, _, _)
RowsUpTo(n, cid, pid) ==
  IF n = 0 THEN <<>> ELSE RowsUpTo(n - 1, cid, pid) \o VisitorRows(n, cid, pid)

\* The table the function returns; rows come in the scan order of visitors.
GetEligibleVisitors(cid, pid) == RowsUpTo(NumVisitors, cid, pid)

\* InVisitorIds with the filter left out.
InVisitorIds_NoFilter(rows, visitorIds) == rows

\* PostgREST .in('visitor_id', visitorIds) applied to the returned table.
InVisitorIds(rows, visitorIds) ==
  SelectSeq(rows, LAMBDA r : r.visitor_id \in Range(visitorIds))

VisitorIdsOf(rows) == {rows[k].visitor_id : k \in DOMAIN rows}

\* supabase.rpc('get_eligible_visitors', {campaign_id_param, property_id_param}).
NoRpc ==
  [called |-> FALSE, campaign_id_param |-> NULL, property_id_param |-> NULL, rows |-> <<>>,
   error |-> NULL]

RpcGetEligibleVisitors(cid, pid) ==
  /\ eligibleVisitors' = [called |-> TRUE, campaign_id_param |-> cid, property_id_param |-> pid,
                          rows |-> GetEligibleVisitors(cid, pid),
                          error |-> NULL]
  /\ UNCHANGED <<visitors, feedback, unsubscribes, follow_up_campaigns, admins, follow_up_logs,
                 inv, calls, history, storeErrors, rendered, env, form>>

\* The visitor's email is on an unsubscribe row of type email or both.
EmailUnsubscribed(v) ==
  \E u \in unsubscribes :
    u.email # 0 /\ u.email = visitors[v].email /\ u.unsubscribe_type \in {"email", "both"}

\* The visitor's phone is on an unsubscribe row of type sms or both.
SmsUnsubscribed(v) ==
  \E u \in unsubscribes :
    u.phone # 0 /\ u.phone = visitors[v].phone /\ u.unsubscribe_type \in {"sms", "both"}

(* ---------------------- replaceTemplateVariables ----------------------- *)

\* A template or a value is a sequence of pieces: a run of plain text, or a placeholder
\* {{name}}; padded tells "{{ name }}" (blanks inside the braces) from "{{name}}".
Text(t) == [kind |-> "text", name |-> t, padded |-> FALSE]
Var(name, padded) == [kind |-> "var", name |-> name, padded |-> padded]

\* String.prototype.replace with a string replacement: "$&" in the replacement stands
\* for the matched text.
Expand(value, match) ==
  [k \in DOMAIN value |-> IF value[k] = Text("$&") THEN match ELSE value[k]]

\* result.replace(new RegExp(`{{${key}}}`, 'g'), value || ''): every "{{key}}" of result,
\* scanned left to right; the text put in by a replacement is not scanned again by the
\* same call. An undefined, null or empty value is the empty sequence.
RECURSIVE Replace(_, _, _)
Replace(result, key, value) ==
  IF result = <<>> THEN <<>>
  ELSE (IF Head(result) = Var(key, FALSE) THEN Expand(value, Head(result)) ELSE <<Head(result)>>)
       \o Replace(Tail(result), key, value)

\* for (const [key, value] of Object.entries(variables)): variables is the sequence of
\* entries [key, value] in the object's own order.
RECURSIVE replaceTemplateVariables(_, _)
replaceTemplateVariables(template, variables) ==
  IF variables = <<>> THEN template
  ELSE replaceTemplateVariables(Replace(template, Head(variables).key, Head(variables).value),
                                Tail(variables))

\* const templateVariables = { visitor_name: ..., ..., admin_phone: ... } in serve.
templateVariables(visitor, admin) ==
  << [key |-> "visitor_name", value |-> visitor.visitor_name],
     [key |-> "property_name", value |-> visitor.property_name],
     [key |-> "property_address", value |-> visitor.property_address],
     [key |-> "admin_name", value |-> admin.name],
     [key |-> "admin_email", value |-> admin.email],
     [key |-> "admin_phone", value |-> admin.phone] >>

AVAILABLE_TEMPLATE_VARIABLES ==
  {"visitor_name", "visitor_email", "visitor_phone", "property_name", "property_address",
   "property_type", "property_price", "admin_name", "admin_email", "admin_phone",
   "visit_date", "feedback_rating", "feedback_comments", "interested"}

NoRendering == [called |-> FALSE, by |-> NULL, template |-> <<>>, variables |-> <<>>, result |-> <<>>]

\* A call replaceTemplateVariables(template, variables) on the arguments held in rendered.
Render ==
  /\ ~rendered.called
  /\ rendered' = [rendered EXCEPT !.called = TRUE, !.by = "replaceTemplateVariables",
                     !.result = replaceTemplateVariables(rendered.template, rendered.variables)]
  /\ UNCHANGED <<data, env, form, follow_up_logs, inv, calls, history, storeErrors, eligibleVisitors>>

\* serve renders a template of the campaign (email_subject, email_template or
\* sms_template) for one row of the resolver's result and the campaign's admin.
RenderForVisitor(visitor, admin) ==
  /\ ~rendered.called
  /\ rendered' = [rendered EXCEPT !.called = TRUE, !.by = "serve",
                     !.variables = templateVariables(visitor, admin),
                     !.result = replaceTemplateVariables(rendered.template,
                                                         templateVariables(visitor, admin))]
  /\ UNCHANGED <<data, env, form, follow_up_logs, inv, calls, history, storeErrors, eligibleVisitors>>

(* ----------------------- campaign form validation ---------------------- *)

\* One match of /\{\{([^}]+)\}\}/g: a placeholder with at least one character between
\* the braces ("{{}}" is not matched, "{{ }}" is and its name trims to "").
Matches(piece) == piece.kind = "var" /\ (piece.name # "" \/ piece.padded)

\* The while loop of extractTemplateVariables over the matches left in template:
\* match[1].trim() is the piece's name; it is pushed unless variables includes it.
RECURSIVE ExtractFrom(_, _)
ExtractFrom(template, variables) ==
  IF template = <<>> THEN variables
  ELSE ExtractFrom(Tail(template),
                   IF Matches(Head(template)) /\ Head(template).name \notin Range(variables)
                   THEN Append(variables, Head(template).name)
                   ELSE variables)

extractTemplateVariables(template) == ExtractFrom(template, <<>>)

\* validateTemplateVariables that takes every extracted name for an available one.
validateTemplateVariables_Unsplit(template) ==
  [isValid |-> TRUE,
   invalidVariables |-> <<>>,
   validVariables |-> extractTemplateVariables(template)]

validateTemplateVariables(template) ==
  LET extractedVariables == extractTemplateVariables(template)
      validVariables == SelectSeq(extractedVariables, LAMBDA v : v \in AVAILABLE_TEMPLATE_VARIABLES)
      invalidVariables == SelectSeq(extractedVariables, LAMBDA v : v \notin AVAILABLE_TEMPLATE_VARIABLES)
  IN [isValid |-> Len(invalidVariables) = 0,
      invalidVariables |-> invalidVariables,
      validVariables |-> validVariables]

requiresEmailTemplate(messageType) == messageType \in {"email", "both"}
requiresSMSTemplate(messageType) == messageType \in {"sms", "both"}

\* !value || value.trim() === '': nothing, or only blanks.
Blank(value) == \A k \in DOMAIN value : value[k] = Text(" ")

\* The superRefine of campaignSchemaWithConditionals: the paths it adds an issue for.
campaignSchemaWithConditionals(formData) ==
  {path \in {"email_subject", "email_template", "sms_template"} :
     \/ /\ path = "email_subject"
        /\ requiresEmailTemplate(formData.message_type) /\ Blank(formData.email_subject)
     \/ /\ path = "email_template"
        /\ \/ requiresEmailTemplate(formData.message_type) /\ Blank(formData.email_template)
           \/ formData.email_template # <<>>
                /\ ~validateTemplateVariables(formData.email_template).isValid
     \/ /\ path = "sms_template"
        /\ \/ requiresSMSTemplate(formData.message_type) /\ Blank(formData.sms_template)
           \/ formData.sms_template # <<>>
                /\ ~validateTemplateVariables(formData.sms_template).isValid}

NoValidation ==
  [called |-> FALSE, extractedVariables |-> <<>>, isValid |-> FALSE, invalidVariables |-> <<>>,
   validVariables |-> <<>>]

\* The form before it is submitted: the values typed in and the campaign being edited.
NoFormData == [message_type |-> "email", email_subject |-> <<>>, email_template |-> <<>>, sms_template |-> <<>>]
NoForm ==
  [submitted |-> FALSE, editingCampaign |-> NULL, formData |-> NoFormData, issues |-> {},
   emailValidation |-> NoValidation, smsValidation |-> NoValidation, saved |-> FALSE]

\* What form keeps of a call of validateTemplateVariables; the schema calls it for a
\* template that is not the empty string.
Validation(template) ==
  IF template = <<>> THEN NoValidation
  ELSE [called |-> TRUE,
        extractedVariables |-> extractTemplateVariables(template),
        isValid |-> validateTemplateVariables(template).isValid,
        invalidVariables |-> validateTemplateVariables(template).invalidVariables,
        validVariables |-> validateTemplateVariables(template).validVariables]

\* campaignForm.handleSubmit(onSubmitCampaign): the resolver runs the schema and
\* onSubmitCampaign is called only when it reports no issue; it looks up the signed-in
\* admin and updates the campaign being edited or inserts a new one.
SubmitCampaign ==
  /\ ~form.submitted
  /\ LET formData == form.formData
         issues == campaignSchemaWithConditionals(formData)
         saves == issues = {} /\ admins # {}
         fields == [message_type |-> formData.message_type,
                    email_subject |-> formData.email_subject,
                    email_template |-> formData.email_template,
                    sms_template |-> formData.sms_template]
     IN /\ form' = [form EXCEPT !.submitted = TRUE, !.issues = issues,
                                !.emailValidation = Validation(formData.email_template),
                                !.smsValidation = Validation(formData.sms_template),
                                !.saved = saves]
        /\ follow_up_campaigns' =
             IF ~saves THEN follow_up_campaigns
             ELSE IF form.editingCampaign # NULL
             THEN {IF c.id = form.editingCampaign
                   THEN [c EXCEPT !.message_type = fields.message_type,
                                  !.email_subject = fields.email_subject,
                                  !.email_template = fields.email_template,
                                  !.sms_template = fields.sms_template]
                   ELSE c : c \in follow_up_campaigns}
             ELSE follow_up_campaigns \cup
                    {[id |-> "c2", property_id |-> NULL,
                      admin_id |-> CHOOSE a \in admins : TRUE,
                      message_type |-> fields.message_type, trigger_condition |-> "manual",
                      email_subject |-> fields.email_subject,
                      email_template |-> fields.email_template,
                      sms_template |-> fields.sms_template]}
  /\ UNCHANGED <<visitors, feedback, unsubscribes, admins, follow_up_logs, inv, calls, history,
                 storeErrors, eligibleVisitors, rendered, env>>

(* ------------------------------- serve -------------------------------- *)

\* SendFollowUpRequest; hasVisitorIds tells an absent visitorIds from an empty list.
NoRequest ==
  [campaignId |-> NULL, hasVisitorIds |-> FALSE, visitorIds |-> <<>>, propertyId |-> NULL,
   messageType |-> NULL]
NoResult == [success |-> FALSE, error |-> NULL]
NoResponse == [status |-> 0, success |-> FALSE, sent |-> 0, failed |-> 0, errors |-> <<>>, error |-> NULL]

IdleInvocation ==
  [pc |-> "idle", send |-> 0, req |-> NoRequest, campaign |-> NullCampaign,
   visitors |-> <<>>, i |-> 0, result |-> NoResult,
   results |-> [sent |-> 0, failed |-> 0, errors |-> <<>>]]

\* catch (error) { ... status: 500 }
ErrorResponse(msg) ==
  [status |-> 500, success |-> FALSE, sent |-> 0, failed |-> 0, errors |-> <<>>, error |-> msg]

\* NoEligibleResponse answered as an error.
NoEligibleResponse_AsError ==
  [status |-> 500, success |-> FALSE, sent |-> 0, failed |-> 0, errors |-> <<>>,
   error |-> "No eligible visitors found"]

\* 'No eligible visitors found': the body has success and sent only.
NoEligibleResponse ==
  [status |-> 200, success |-> TRUE, sent |-> 0, failed |-> -1, errors |-> <<>>, error |-> NULL]

\* 'Follow-up messages processed'
ProcessedResponse(results) ==
  [status |-> 200, success |-> TRUE, sent |-> results.sent, failed |-> results.failed,
   errors |-> results.errors, error |-> NULL]

\* const effectiveMessageType = messageType || campaign.message_type
EffectiveMessageType(req, campaign) ==
  IF req.messageType # NULL THEN req.messageType ELSE campaign.message_type

\* The rows serve loops over: the rpc result, narrowed by .in() when visitorIds is a
\* non-empty list.
ResolveVisitors(req) ==
  IF req.hasVisitorIds /\ Len(req.visitorIds) > 0
  THEN InVisitorIds(GetEligibleVisitors(req.campaignId, req.propertyId), req.visitorIds)
  ELSE GetEligibleVisitors(req.campaignId, req.propertyId)

\* What the invocation's record keeps of the moment it resolved its visitors.
Resolved(req, rows, response) ==
  [req |-> req,
   logLen |-> Len(follow_up_logs),
   eligible |-> VisitorIdsOf(GetEligibleVisitors(req.campaignId, req.propertyId)),
   visitors |-> [k \in DOMAIN rows |-> rows[k].visitor_id],
   unsubscribed |-> {v \in Visitors : UnsubscribeMatch(v)},
   emailUnsubscribed |-> {v \in Visitors : EmailUnsubscribed(v)},
   response |-> response]

\* ServeStart without the lookup of the campaign's admin.
ServeStart_NoAdminCheck(w, req) ==
  /\ inv[w].pc = "idle"
  /\ \A u \in Workers : u < w => inv[u].pc # "idle"
  /\ Len(history) < MaxSends
  /\ LET campaign == CampaignRow(req.campaignId)
         rows == ResolveVisitors(req)
     IN IF req.campaignId = NULL
        THEN /\ history' = Append(history, Resolved(req, <<>>, ErrorResponse("Campaign ID is required")))
             /\ inv' = inv
        ELSE IF campaign.id = NULL
        THEN /\ history' = Append(history, Resolved(req, <<>>, ErrorResponse("Campaign not found")))
             /\ inv' = inv
        ELSE IF Len(rows) = 0
        THEN /\ history' = Append(history, Resolved(req, rows, NoEligibleResponse))
             /\ inv' = inv
        ELSE /\ history' = Append(history, Resolved(req, rows, NoResponse))
             /\ inv' = [inv EXCEPT ![w] =
                          [IdleInvocation EXCEPT !.pc = "email", !.send = Len(history) + 1,
                             !.req = req, !.campaign = campaign, !.visitors = rows, !.i = 1]]
  /\ UNCHANGED <<data, env, form, eligibleVisitors, rendered, follow_up_logs, calls, storeErrors>>

\* serve, from the request to the resolved visitor list (lines 231-306).
ServeStart(w, req) ==
  /\ inv[w].pc = "idle"
  /\ \A u \in Workers : u < w => inv[u].pc # "idle"
  /\ Len(history) < MaxSends
  /\ LET campaign == CampaignRow(req.campaignId)
         rows == ResolveVisitors(req)
     IN IF req.campaignId = NULL
        THEN /\ history' = Append(history, Resolved(req, <<>>, ErrorResponse("Campaign ID is required")))
             /\ inv' = inv
        ELSE IF campaign.id = NULL
        THEN /\ history' = Append(history, Resolved(req, <<>>, ErrorResponse("Campaign not found")))
             /\ inv' = inv
        ELSE IF campaign.admin_id \notin admins
        THEN /\ history' = Append(history, Resolved(req, <<>>, ErrorResponse("Admin not found")))
             /\ inv' = inv
        ELSE IF Len(rows) = 0
        THEN /\ history' = Append(history, Resolved(req, rows, NoEligibleResponse))
             /\ inv' = inv
        ELSE /\ history' = Append(history, Resolved(req, rows, NoResponse))
             /\ inv' = [inv EXCEPT ![w] =
                          [IdleInvocation EXCEPT !.pc = "email", !.send = Len(history) + 1,
                             !.req = req, !.campaign = campaign, !.visitors = rows, !.i = 1]]
  /\ UNCHANGED <<data, env, form, eligibleVisitors, rendered, follow_up_logs, calls, storeErrors>>

\* End of the loop body for one visitor: the next visitor, or the final response.
Advance(w, results) ==
  IF inv[w].i < Len(inv[w].visitors)
  THEN /\ inv' = [inv EXCEPT ![w] = [@ EXCEPT !.pc = "email", !.i = @ + 1,
                                        !.result = NoResult, !.results = results]]
       /\ history' = history
  ELSE /\ inv' = [inv EXCEPT ![w] = IdleInvocation]
       /\ history' = [history EXCEPT ![inv[w].send] =
                        [@ EXCEPT !.response = ProcessedResponse(results)]]

\* sendEmail / sendSMS as serve sees them: {success, messageId} or {success: false, error}.
TransportResult(ok) ==
  IF ok THEN [success |-> TRUE, error |-> NULL] ELSE [success |-> FALSE, error |-> "transport error"]

\* Deno.env with every provider credential set, and the test each transport makes of it.
ConfiguredEnv ==
  [RESEND_API_KEY |-> TRUE, TWILIO_ACCOUNT_SID |-> TRUE, TWILIO_AUTH_TOKEN |-> TRUE,
   TWILIO_PHONE_NUMBER |-> TRUE]

Configured(channel) ==
  IF channel = "email"
  THEN env.RESEND_API_KEY
  ELSE env.TWILIO_ACCOUNT_SID /\ env.TWILIO_AUTH_TOKEN /\ env.TWILIO_PHONE_NUMBER

\* sendEmail: without RESEND_API_KEY it throws before the fetch and returns the failure;
\* otherwise the result is the provider's answer (ok).
sendEmail(ok) ==
  IF ~env.RESEND_API_KEY
  THEN [success |-> FALSE, error |-> "RESEND_API_KEY not configured"]
  ELSE TransportResult(ok)

\* sendSMS: the same with the three Twilio settings.
sendSMS(ok) ==
  IF ~(env.TWILIO_ACCOUNT_SID /\ env.TWILIO_AUTH_TOKEN /\ env.TWILIO_PHONE_NUMBER)
  THEN [success |-> FALSE, error |-> "Twilio credentials not configured"]
  ELSE TransportResult(ok)

\* What calls keeps of a call of sendEmail / sendSMS for the current visitor: whether
\* it got as far as the provider's API (fetched), whether it returned, and whether the
\* resolver would still return the visitor at the moment of the call (eligibleNow).
CallRecord(w, channel, result, returned) ==
  LET visitor == inv[w].visitors[inv[w].i]
  IN [send |-> inv[w].send,
      visitor_id |-> visitor.visitor_id,
      channel |-> channel,
      to |-> IF channel = "email" THEN visitor.visitor_email ELSE visitor.visitor_phone,
      success |-> result.success,
      fetched |-> Configured(channel),
      returned |-> returned,
      eligibleNow |-> visitor.visitor_id \in
                        VisitorIdsOf(GetEligibleVisitors(inv[w].req.campaignId, inv[w].req.propertyId))]

\* SendEmailStep that asks the resolver again before each call and skips a visitor it
\* no longer returns.
SendEmailStep_Recheck(w) ==
  /\ inv[w].pc = "email"
  /\ LET visitor == inv[w].visitors[inv[w].i]
         eff == EffectiveMessageType(inv[w].req, inv[w].campaign)
     IN IF /\ eff \in {"email", "both"} /\ visitor.visitor_email # 0
           /\ visitor.visitor_id \in
                VisitorIdsOf(GetEligibleVisitors(inv[w].req.campaignId, inv[w].req.propertyId))
        THEN \E ok \in BOOLEAN :
               /\ calls' = Append(calls, CallRecord(w, "email", sendEmail(ok), TRUE))
               /\ inv' = [inv EXCEPT ![w] = [@ EXCEPT !.pc = "logEmail", !.result = sendEmail(ok)]]
        ELSE /\ calls' = calls
             /\ inv' = [inv EXCEPT ![w] = [@ EXCEPT !.pc = "sms"]]
  /\ UNCHANGED <<data, env, form, eligibleVisitors, rendered, follow_up_logs, history, storeErrors>>

\* "Send email" (lines 321-334): the two ifs and the call of sendEmail.
SendEmailStep(w) ==
  /\ inv[w].pc = "email"
  /\ LET visitor == inv[w].visitors[inv[w].i]
         eff == EffectiveMessageType(inv[w].req, inv[w].campaign)
     IN IF eff \in {"email", "both"} /\ visitor.visitor_email # 0
        THEN \E ok \in BOOLEAN :
               /\ calls' = Append(calls, CallRecord(w, "email", sendEmail(ok), TRUE))
               /\ inv' = [inv EXCEPT ![w] = [@ EXCEPT !.pc = "logEmail", !.result = sendEmail(ok)]]
        ELSE /\ calls' = calls
             /\ inv' = [inv EXCEPT ![w] = [@ EXCEPT !.pc = "sms"]]
  /\ UNCHANGED <<data, env, form, eligibleVisitors, rendered, follow_up_logs, history, storeErrors>>

\* LogRow that records every attempt as sent.
LogRow_AlwaysSent(w, channel, to) ==
  LET visitor == inv[w].visitors[inv[w].i]
  IN [visitor_id |-> visitor.visitor_id,
      campaign_id |-> inv[w].req.campaignId,
      property_id |-> visitors[visitor.visitor_id].property_id,
      admin_id |-> inv[w].campaign.admin_id,
      message_type |-> channel,
      recipient |-> to,
      status |-> "sent",
      error_message |-> inv[w].result.error,
      send |-> inv[w].send]

\* The row logFollowUp inserts.
LogRow(w, channel, to) ==
  LET visitor == inv[w].visitors[inv[w].i]
  IN [visitor_id |-> visitor.visitor_id,
      campaign_id |-> inv[w].req.campaignId,
      property_id |-> visitors[visitor.visitor_id].property_id,
      admin_id |-> inv[w].campaign.admin_id,
      message_type |-> channel,
      recipient |-> to,
      status |-> IF inv[w].result.success THEN "sent" ELSE "failed",
      error_message |-> inv[w].result.error,
      send |-> inv[w].send]

\* Count that takes every transport result for a success.
Count_AlwaysSent(results, result, channel, to) ==
  [results EXCEPT !.sent = @ + 1]

\* results.sent++ / results.failed++, results.errors.push(...)
Count(results, result, channel, to) ==
  IF result.success
  THEN [results EXCEPT !.sent = @ + 1]
  ELSE [results EXCEPT !.failed = @ + 1,
                       !.errors = Append(@, [channel |-> channel, to |-> to, error |-> result.error])]

\* LogFollowUp as an upsert on (visitor, campaign, channel): the earlier row is replaced.
LogFollowUp_Overwrite(row, stored) ==
  /\ stored \/ storeErrors < MaxStoreErrors
  /\ follow_up_logs' =
       IF stored
       THEN Append(SelectSeq(follow_up_logs,
                             LAMBDA r : ~(/\ r.visitor_id = row.visitor_id
                                          /\ r.campaign_id = row.campaign_id
                                          /\ r.message_type = row.message_type)),
                   row)
       ELSE follow_up_logs
  /\ storeErrors' = IF stored THEN storeErrors ELSE storeErrors + 1

\* logFollowUp: the insert, whose error is only printed.
LogFollowUp(row, stored) ==
  /\ stored \/ storeErrors < MaxStoreErrors
  /\ follow_up_logs' = IF stored THEN Append(follow_up_logs, row) ELSE follow_up_logs
  /\ storeErrors' = IF stored THEN storeErrors ELSE storeErrors + 1

\* Lines 336-370: log the email attempt and count it.
LogEmailStep(w) ==
  /\ inv[w].pc = "logEmail"
  /\ LET to == inv[w].visitors[inv[w].i].visitor_email
     IN /\ \E stored \in BOOLEAN : LogFollowUp(LogRow(w, "email", to), stored)
        /\ inv' = [inv EXCEPT ![w] =
                     [@ EXCEPT !.pc = "sms", !.result = NoResult,
                               !.results = Count(@, inv[w].result, "email", to)]]
  /\ UNCHANGED <<data, env, form, eligibleVisitors, rendered, calls, history>>

\* "Send SMS" (lines 373-378): the two ifs and the call of sendSMS.
SendSmsStep(w) ==
  /\ inv[w].pc = "sms"
  /\ LET visitor == inv[w].visitors[inv[w].i]
         eff == EffectiveMessageType(inv[w].req, inv[w].campaign)
     IN IF eff \in {"sms", "both"} /\ visitor.visitor_phone # 0 /\ inv[w].campaign.sms_template # ""
        THEN \E ok \in BOOLEAN :
               /\ calls' = Append(calls, CallRecord(w, "sms", sendSMS(ok), TRUE))
               /\ inv' = [inv EXCEPT ![w] = [@ EXCEPT !.pc = "logSms", !.result = sendSMS(ok)]]
               /\ history' = history
        ELSE /\ calls' = calls
             /\ Advance(w, inv[w].results)
  /\ UNCHANGED <<data, env, form, eligibleVisitors, rendered, follow_up_logs, storeErrors>>

\* Lines 380-414: log the sms attempt and count it; then the next visitor or the response.
LogSmsStep(w) ==
  /\ inv[w].pc = "logSms"
  /\ LET to == inv[w].visitors[inv[w].i].visitor_phone
     IN /\ \E stored \in BOOLEAN : LogFollowUp(LogRow(w, "sms", to), stored)
        /\ Advance(w, Count(inv[w].results, inv[w].result, "sms", to))
  /\ UNCHANGED <<data, env, form, eligibleVisitors, rendered, calls>>

\* The fetch inside sendEmail has no timeout (no AbortSignal): when the provider accepts
\* the connection and never answers, the await in serve never resumes.
EmailNeverRespondsStep(w) ==
  /\ inv[w].pc = "email"
  /\ EffectiveMessageType(inv[w].req, inv[w].campaign) \in {"email", "both"}
  /\ inv[w].visitors[inv[w].i].visitor_email # 0
  /\ env.RESEND_API_KEY
  /\ calls' = Append(calls, CallRecord(w, "email", NoResult, FALSE))
  /\ inv' = [inv EXCEPT ![w] = [@ EXCEPT !.pc = "awaitEmail"]]
  /\ UNCHANGED <<data, env, form, eligibleVisitors, rendered, follow_up_logs, history, storeErrors>>

\* The same for the fetch inside sendSMS.
SmsNeverRespondsStep(w) ==
  /\ inv[w].pc = "sms"
  /\ EffectiveMessageType(inv[w].req, inv[w].campaign) \in {"sms", "both"}
  /\ inv[w].visitors[inv[w].i].visitor_phone # 0
  /\ inv[w].campaign.sms_template # ""
  /\ Configured("sms")
  /\ calls' = Append(calls, CallRecord(w, "sms", NoResult, FALSE))
  /\ inv' = [inv EXCEPT ![w] = [@ EXCEPT !.pc = "awaitSms"]]
  /\ UNCHANGED <<data, env, form, eligibleVisitors, rendered, follow_up_logs, history, storeErrors>>

\* A visitor (or anyone) unsubscribes: a row is inserted into unsubscribes.
Unsubscribe(u) ==
  /\ u \notin unsubscribes
  /\ unsubscribes' = unsubscribes \cup {u}
  /\ UNCHANGED <<visitors, feedback, follow_up_campaigns, admins, follow_up_logs, inv, calls,
                 history, storeErrors, eligibleVisitors, rendered, env, form>>

\* A visitor submits the feedback form: a row is inserted into feedback (nothing keeps
\* a visitor from submitting it again).
SubmitFeedback(v, interested) ==
  /\ Len(feedback[v]) < MaxFeedback
  /\ feedback' = [feedback EXCEPT ![v] = Append(@, interested)]
  /\ UNCHANGED <<visitors, unsubscribes, follow_up_campaigns, admins, follow_up_logs, inv, calls,
                 history, storeErrors, eligibleVisitors, rendered, env, form>>

(* --------------------------- specifications --------------------------- *)

NoInvocationRunning == \A w \in Workers : inv[w].pc = "idle"

\* The requests the operator sends in the serial specification.
VisitorIdLists == {<<>>, <<1>>}
Requests ==
  {r \in [campaignId : {"c1"}, hasVisitorIds : BOOLEAN, visitorIds : VisitorIdLists,
          propertyId : {NULL}, messageType : {NULL, "email"}] :
     r.hasVisitorIds <=> (r.visitorIds # <<>>)}

\* The unsubscribe rows visitors file while the campaign runs.
UnsubscribeRows == {[email |-> 1, phone |-> 0, unsubscribe_type |-> "email"]}

Init ==
  /\ visitors \in [Visitors -> [email : 0..NumVisitors, phone : 0..NumVisitors, property_id : {"p1"}]]
  /\ \A v \in Visitors : visitors[v].email \in {0, v} /\ visitors[v].phone \in {0, v}
  /\ \A v \in Visitors : v > 1 => visitors[v].email = v
  /\ \E fb \in {<<>>, <<"t", "f">>} : feedback = [v \in Visitors |-> IF v = 1 THEN fb ELSE <<>>]
  /\ unsubscribes = {}
  /\ \E mt \in MessageTypes, st \in {"", "T"}, tc \in {"all", "interested"} :
       /\ (st = "") => mt \in {"sms", "both"}
       /\ follow_up_campaigns =
            {[id |-> "c1", property_id |-> NULL, admin_id |-> "a1", message_type |-> mt,
              trigger_condition |-> tc, email_subject |-> "S", email_template |-> "B",
              sms_template |-> st]}
  /\ admins = {"a1"}
  /\ follow_up_logs = <<>>
  /\ inv = [w \in Workers |-> IdleInvocation]
  /\ calls = <<>>
  /\ history = <<>>
  /\ storeErrors = 0
  /\ eligibleVisitors = NoRpc
  /\ env = ConfiguredEnv
  /\ form = NoForm
  /\ rendered = NoRendering

SerialServeStart == \E req \in Requests : NoInvocationRunning /\ ServeStart(1, req)
SendEmail == \E w \in Workers : SendEmailStep(w)
LogEmail == \E w \in Workers : LogEmailStep(w)
SendSms == \E w \in Workers : SendSmsStep(w)
LogSms == \E w \in Workers : LogSmsStep(w)
VisitorUnsubscribes == \E u \in UnsubscribeRows : Unsubscribe(u)

Next ==
  \/ SerialServeStart
  \/ SendEmail
  \/ LogEmail
  \/ SendSms
  \/ LogSms
  \/ VisitorUnsubscribes

Spec == Init /\ [][Next]_vars

\* Two operators (or a double click) send the same campaign at the same time.
RaceRequests ==
  {[campaignId |-> "c1", hasVisitorIds |-> FALSE, visitorIds |-> <<>>, propertyId |-> NULL,
    messageType |-> NULL]}

RaceInit ==
  /\ visitors = [v \in Visitors |->
                   [email |-> v, phone |-> IF v = 1 THEN v ELSE 0, property_id |-> "p1"]]
  /\ feedback = [v \in Visitors |-> <<>>]
  /\ unsubscribes = {}
  /\ follow_up_campaigns =
       {[id |-> "c1", property_id |-> NULL, admin_id |-> "a1", message_type |-> "both",
         trigger_condition |-> "all", email_subject |-> "S", email_template |-> "B",
         sms_template |-> "T"]}
  /\ admins = {"a1"}
  /\ follow_up_logs = <<>>
  /\ inv = [w \in Workers |-> IdleInvocation]
  /\ calls = <<>>
  /\ history = <<>>
  /\ storeErrors = 0
  /\ eligibleVisitors = NoRpc
  /\ env = ConfiguredEnv
  /\ form = NoForm
  /\ rendered = NoRendering

ConcurrentServeStart == \E w \in Workers, req \in RaceRequests : ServeStart(w, req)

NextRace ==
  \/ ConcurrentServeStart
  \/ SendEmail
  \/ LogEmail
  \/ SendSms
  \/ LogSms

SpecRace == RaceInit /\ [][NextRace]_vars

\* The resolver on its own, over a wider range of data.
RECURSIVE SeqsUpTo(_, _)
SeqsUpTo(S, n) ==
  IF n = 0 THEN {<<>>}
  ELSE LET shorter == SeqsUpTo(S, n - 1)
       IN shorter \cup {Append(q, x) : q \in {r \in shorter : Len(r) = n - 1}, x \in S}

FeedbackLists == SeqsUpTo({"t", "f", "null"}, MaxFeedback)

ResolverUnsubscribeRows ==
  {[email |-> 1, phone |-> 0, unsubscribe_type |-> "email"],
   [email |-> 0, phone |-> 1, unsubscribe_type |-> "sms"],
   [email |-> 1, phone |-> 1, unsubscribe_type |-> "both"]}

ResolverLogs ==
  {<<>>} \cup
  {<< [visitor_id |-> 1, campaign_id |-> "c1", property_id |-> NULL, admin_id |-> "a1",
       message_type |-> "email", recipient |-> 1, status |-> st, error_message |-> NULL,
       send |-> 0] >> : st \in {"sent", "failed"}}

ResolverInit ==
  /\ visitors \in [Visitors -> [email : 0..NumVisitors, phone : 0..NumVisitors,
                                property_id : {NULL} \cup Properties]]
  /\ \A v \in Visitors : visitors[v].email \in {0, v} /\ visitors[v].phone \in {0, v}
  /\ \A v \in Visitors : v > 1 => visitors[v].email = v /\ visitors[v].phone = v /\ visitors[v].property_id = "p1"
  /\ feedback \in [Visitors -> FeedbackLists]
  /\ \A v \in Visitors : v > 1 => feedback[v] \in {<<>>, <<"t">>}
  /\ unsubscribes \in {{}} \cup {{u} : u \in ResolverUnsubscribeRows}
  /\ \E mt \in {"email", "both"}, tc \in TriggerConditions, pr \in {NULL, "p1"} :
       follow_up_campaigns =
         {[id |-> "c1", property_id |-> pr, admin_id |-> "a1", message_type |-> mt,
           trigger_condition |-> tc, email_subject |-> "S", email_template |-> "B",
           sms_template |-> "T"]}
  /\ admins = {"a1"}
  /\ follow_up_logs \in ResolverLogs
  /\ inv = [w \in Workers |-> IdleInvocation]
  /\ calls = <<>>
  /\ history = <<>>
  /\ storeErrors = 0
  /\ eligibleVisitors = NoRpc
  /\ env = ConfiguredEnv
  /\ form = NoForm
  /\ rendered = NoRendering

CallResolver ==
  \E cid \in CampaignIds, pid \in {NULL} \cup Properties : RpcGetEligibleVisitors(cid, pid)

ResolverNext == CallResolver

SpecResolver == ResolverInit /\ [][ResolverNext]_vars

\* Requests and campaigns that serve has to turn down or cope with: no campaign id, an
\* unknown campaign, a campaign without an admin (admin_id is nullable; a set admin_id
\* always references an admins row), campaigns whose templates are empty, a visitorIds
\* list that is present and empty.
ConfigRequests ==
  {[campaignId |-> c, hasVisitorIds |-> h, visitorIds |-> <<>>, propertyId |-> NULL,
    messageType |-> NULL] : c \in {NULL} \cup CampaignIds, h \in BOOLEAN}

ConfigInit ==
  /\ \E ph \in {0, 1} :
       visitors = [v \in Visitors |->
                     [email |-> v, phone |-> IF v = 1 THEN ph ELSE 0, property_id |-> "p1"]]
  /\ feedback = [v \in Visitors |-> <<>>]
  /\ unsubscribes = {}
  /\ \E mt \in MessageTypes, ad \in {NULL, "a1"}, es \in {"", "S"}, et \in {"", "B"}, st \in {"", "T"} :
       follow_up_campaigns =
         {[id |-> "c1", property_id |-> NULL, admin_id |-> ad, message_type |-> mt,
           trigger_condition |-> "all", email_subject |-> es, email_template |-> et,
           sms_template |-> st]}
  /\ admins = {"a1"}
  /\ follow_up_logs = <<>>
  /\ inv = [w \in Workers |-> IdleInvocation]
  /\ calls = <<>>
  /\ history = <<>>
  /\ storeErrors = 0
  /\ eligibleVisitors = NoRpc
  /\ env = ConfiguredEnv
  /\ form = NoForm
  /\ rendered = NoRendering

ConfigServeStart == \E req \in ConfigRequests : NoInvocationRunning /\ ServeStart(1, req)

NextConfig ==
  \/ ConfigServeStart
  \/ SendEmail
  \/ LogEmail
  \/ SendSms
  \/ LogSms

SpecConfig == ConfigInit /\ [][NextConfig]_vars

\* The renderer on its own: templates of up to MaxTemplateLen pieces over two mapped
\* names and an unmapped one, and every single-placeholder template of the variable list.
RenderPieces ==
  {Text("x"), Var("visitor_name", FALSE), Var("visitor_name", TRUE), Var("admin_name", FALSE),
   Var("unknown", FALSE)}

RenderTemplates ==
  SeqsUpTo(RenderPieces, MaxTemplateLen)
    \cup {<<Var(name, FALSE)>> : name \in AVAILABLE_TEMPLATE_VARIABLES}

RenderKeys == {"visitor_name", "admin_name"}

RenderValues ==
  {<<>>, <<Text("V")>>, <<Var("admin_name", FALSE)>>, <<Var("visitor_name", FALSE)>>, <<Text("$&")>>}

\* The objects passed as variables: any keys of RenderKeys in any order.
RenderMappings ==
  {m \in SeqsUpTo([key : RenderKeys, value : RenderValues], Cardinality(RenderKeys)) :
     \A j, k \in DOMAIN m : j # k => m[j].key # m[k].key}

\* Rows of the resolver's result as far as serve renders them (visitors.name is free
\* text typed by the visitor; property_name is NULL for a visitor without property).
VisitorData ==
  [visitor_name : {<<Text("Ann")>>, <<Var("admin_name", FALSE)>>},
   property_name : {<<>>, <<Text("Elm House")>>},
   property_address : {<<Text("1 Elm St")>>}]

\* The admins row serve loads with select('*'): the table has first_name, last_name and
\* email and no name or phone column, so admin.name and admin.phone are undefined.
AdminData == [name : {<<>>}, email : {<<Text("bo@x")>>}, phone : {<<>>}]

RenderInit ==
  /\ visitors = [v \in Visitors |-> [email |-> v, phone |-> v, property_id |-> "p1"]]
  /\ feedback = [v \in Visitors |-> <<>>]
  /\ unsubscribes = {}
  /\ follow_up_campaigns = {}
  /\ admins = {"a1"}
  /\ follow_up_logs = <<>>
  /\ inv = [w \in Workers |-> IdleInvocation]
  /\ calls = <<>>
  /\ history = <<>>
  /\ storeErrors = 0
  /\ eligibleVisitors = NoRpc
  /\ env = ConfiguredEnv
  /\ form = NoForm
  /\ \E t \in RenderTemplates, m \in RenderMappings :
       rendered = [NoRendering EXCEPT !.template = t, !.variables = m]

CallRender == Render
ServeRenders == \E visitor \in VisitorData, admin \in AdminData : RenderForVisitor(visitor, admin)

NextRender ==
  \/ CallRender
  \/ ServeRenders

SpecRender == RenderInit /\ [][NextRender]_vars

\* A deployment in which provider credentials may be missing (local development).
SimulationInit ==
  /\ visitors = [v \in Visitors |->
                   [email |-> v, phone |-> IF v = 1 THEN v ELSE 0, property_id |-> "p1"]]
  /\ feedback = [v \in Visitors |-> <<>>]
  /\ unsubscribes = {}
  /\ follow_up_campaigns =
       {[id |-> "c1", property_id |-> NULL, admin_id |-> "a1", message_type |-> "both",
         trigger_condition |-> "all", email_subject |-> "S", email_template |-> "B",
         sms_template |-> "T"]}
  /\ admins = {"a1"}
  /\ follow_up_logs = <<>>
  /\ inv = [w \in Workers |-> IdleInvocation]
  /\ calls = <<>>
  /\ history = <<>>
  /\ storeErrors = 0
  /\ eligibleVisitors = NoRpc
  /\ rendered = NoRendering
  /\ env \in [RESEND_API_KEY : BOOLEAN, TWILIO_ACCOUNT_SID : BOOLEAN,
               TWILIO_AUTH_TOKEN : {TRUE}, TWILIO_PHONE_NUMBER : BOOLEAN]
  /\ form = NoForm

SimulationServeStart == \E req \in RaceRequests : NoInvocationRunning /\ ServeStart(1, req)

NextSimulation ==
  \/ SimulationServeStart
  \/ SendEmail
  \/ LogEmail
  \/ SendSms
  \/ LogSms

SpecSimulation == SimulationInit /\ [][NextSimulation]_vars

\* Providers that may accept a request and never answer it. The runtime resumes serve
\* whenever the promise it awaits settles, so every step of a started invocation is
\* taken once it can be (weak fairness); whether a fetch is answered is up to the provider.
EmailNeverResponds == \E w \in Workers : EmailNeverRespondsStep(w)
SmsNeverResponds == \E w \in Workers : SmsNeverRespondsStep(w)

TimeoutServeStart == \E req \in RaceRequests : NoInvocationRunning /\ ServeStart(1, req)

NextTimeout ==
  \/ TimeoutServeStart
  \/ SendEmail
  \/ EmailNeverResponds
  \/ LogEmail
  \/ SendSms
  \/ SmsNeverResponds
  \/ LogSms

TimeoutFairness ==
  /\ WF_vars(SendEmail \/ EmailNeverResponds)
  /\ WF_vars(LogEmail)
  /\ WF_vars(SendSms \/ SmsNeverResponds)
  /\ WF_vars(LogSms)

SpecTimeout == RaceInit /\ [][NextTimeout]_vars /\ TimeoutFairness

\* A campaign for visitors who have left no feedback is sent, and sent again, while
\* visitors unsubscribe and submit feedback.
SnapshotUnsubscribeRows == {[email |-> 2, phone |-> 0, unsubscribe_type |-> "email"]}

SnapshotInit ==
  /\ visitors = [v \in Visitors |->
                   [email |-> v, phone |-> IF v = 1 THEN v ELSE 0, property_id |-> "p1"]]
  /\ feedback = [v \in Visitors |-> <<>>]
  /\ unsubscribes = {}
  /\ follow_up_campaigns =
       {[id |-> "c1", property_id |-> NULL, admin_id |-> "a1", message_type |-> "both",
         trigger_condition |-> "no_feedback", email_subject |-> "S", email_template |-> "B",
         sms_template |-> "T"]}
  /\ admins = {"a1"}
  /\ follow_up_logs = <<>>
  /\ inv = [w \in Workers |-> IdleInvocation]
  /\ calls = <<>>
  /\ history = <<>>
  /\ storeErrors = 0
  /\ eligibleVisitors = NoRpc
  /\ env = ConfiguredEnv
  /\ form = NoForm
  /\ rendered = NoRendering

SnapshotServeStart == \E req \in RaceRequests : NoInvocationRunning /\ ServeStart(1, req)
SnapshotUnsubscribes == \E u \in SnapshotUnsubscribeRows : Unsubscribe(u)
VisitorSubmitsFeedback == \E v \in Visitors, interested \in {"t", "f"} : SubmitFeedback(v, interested)

NextSnapshot ==
  \/ SnapshotServeStart
  \/ SendEmail
  \/ LogEmail
  \/ SendSms
  \/ LogSms
  \/ SnapshotUnsubscribes
  \/ VisitorSubmitsFeedback

SpecSnapshot == SnapshotInit /\ [][NextSnapshot]_vars

\* The admin creates a campaign, or edits campaign c1, and submits the form.
FormPieces ==
  {Text("x"), Text(" "), Var("visitor_name", FALSE), Var("visitor_name", TRUE),
   Var("interested", FALSE), Var("unknown", FALSE), Var("", TRUE), Var("", FALSE)}

FormTemplates == SeqsUpTo(FormPieces, MaxTemplateLen)

FormData ==
  [message_type : MessageTypes,
   email_subject : {<<>>, <<Text("S")>>},
   email_template : FormTemplates,
   sms_template : {<<>>, <<Text("x")>>, <<Var("unknown", TRUE)>>,
                   <<Var("visitor_name", FALSE), Text("x")>>}]

SavedCampaign ==
  [id |-> "c1", property_id |-> NULL, admin_id |-> "a1", message_type |-> "email",
   trigger_condition |-> "manual", email_subject |-> <<Text("S")>>,
   email_template |-> <<Text("x")>>, sms_template |-> <<>>]

FormInit ==
  /\ visitors = [v \in Visitors |-> [email |-> v, phone |-> v, property_id |-> "p1"]]
  /\ feedback = [v \in Visitors |-> <<>>]
  /\ unsubscribes = {}
  /\ follow_up_campaigns = {SavedCampaign}
  /\ admins = {"a1"}
  /\ follow_up_logs = <<>>
  /\ inv = [w \in Workers |-> IdleInvocation]
  /\ calls = <<>>
  /\ history = <<>>
  /\ storeErrors = 0
  /\ eligibleVisitors = NoRpc
  /\ env = ConfiguredEnv
  /\ rendered = NoRendering
  /\ \E formData \in FormData, editingCampaign \in {NULL, "c1"} :
       form = [NoForm EXCEPT !.formData = formData, !.editingCampaign = editingCampaign]

NextForm == SubmitCampaign

SpecForm == FormInit /\ [][NextForm]_vars

(* ------------------------------- claims ------------------------------- *)

SameTriple(r, q) ==
  /\ r.visitor_id = q.visitor_id
  /\ r.campaign_id = q.campaign_id
  /\ r.message_type = q.message_type

\* The rows of follow_up_logs that existed when invocation n resolved its visitors.
LogBefore(n) == 1..history[n].logLen

\* C1: a visitor who has a `sent` row for a campaign when a later invocation for that
\* campaign starts gets no further row (sent or failed) on that channel from it.
C1_IdempotentSuppression ==
  \A k \in DOMAIN follow_up_logs :
    \A j \in LogBefore(follow_up_logs[k].send) :
      ~(SameTriple(follow_up_logs[j], follow_up_logs[k]) /\ follow_up_logs[j].status = "sent")

\* A second invocation ran to its response although a visitor already had a `sent` row,
\* and it wrote rows of its own (for somebody else).
C1_Witness ==
  /\ Len(history) = 2
  /\ history[2].response.status = 200
  /\ \E j \in LogBefore(2) : follow_up_logs[j].status = "sent"
  /\ \E k \in DOMAIN follow_up_logs : follow_up_logs[k].send = 2

\* C2: no (visitor, campaign, channel) has two `sent` rows, also when invocations interleave.
C2_NoDuplicateSent ==
  \A j, k \in DOMAIN follow_up_logs :
    (j < k /\ SameTriple(follow_up_logs[j], follow_up_logs[k]))
      => ~(follow_up_logs[j].status = "sent" /\ follow_up_logs[k].status = "sent")

\* The request of invocation n names visitor v: it has no (non-empty) visitorIds list,
\* or v is in it.
Selects(req, v) == ~(req.hasVisitorIds /\ Len(req.visitorIds) > 0) \/ v \in Range(req.visitorIds)

Channels(mt) == CASE mt = "email" -> {"email"} [] mt = "sms" -> {"sms"} [] mt = "both" -> {"email", "sms"} [] OTHER -> {}

EffectiveChannels(n) ==
  Channels(EffectiveMessageType(history[n].req, CampaignRow(history[n].req.campaignId)))

\* v passed property scope, trigger filter and unsubscribe suppression when invocation n
\* resolved (visitors, feedback and campaigns do not change in these specifications).
PassesFilters(n, v) ==
  LET c == CampaignRow(history[n].req.campaignId)
  IN /\ PropertyFilter(v, c, history[n].req.propertyId)
     /\ \E k \in DOMAIN FeedbackJoin(v) : TriggerFilter(c, FeedbackJoin(v)[k])
     /\ v \notin history[n].unsubscribed

\* The rows for (campaign of n, v) that existed when invocation n resolved.
RowsBefore(n, v) ==
  {j \in LogBefore(n) : /\ follow_up_logs[j].visitor_id = v
                        /\ follow_up_logs[j].campaign_id = history[n].req.campaignId}

Attempted(n, v, ch) ==
  \E k \in DOMAIN calls : calls[k].send = n /\ calls[k].visitor_id = v /\ calls[k].channel = ch

Max(S) == CHOOSE x \in S : \A y \in S : y <= x

\* C3: a visitor with a `failed` row and no `sent` row for the campaign, who still passes
\* the other filters, is in the eligible set of a new invocation for the campaign, and an
\* invocation that names the visitor and sends on the failed channel calls the transport
\* for them again on that channel.
C3_RetryAfterFailure ==
  \A n \in DOMAIN history : \A v \in Visitors : \A ch \in {"email", "sms"} :
    ( /\ \E j \in RowsBefore(n, v) : follow_up_logs[j].status = "failed" /\ follow_up_logs[j].message_type = ch
      /\ \A j \in RowsBefore(n, v) : follow_up_logs[j].status # "sent"
      /\ PassesFilters(n, v) )
    => /\ v \in history[n].eligible
       /\ (Selects(history[n].req, v) /\ ch \in EffectiveChannels(n))
            => /\ v \in Range(history[n].visitors)
               /\ history[n].response.status # 0 => Attempted(n, v, ch)

\* A second invocation finished after retrying a visitor whose only earlier row was `failed`.
C3_Witness ==
  /\ Len(history) = 2
  /\ history[2].response.status = 200
  /\ \E v \in Visitors :
       /\ RowsBefore(2, v) # {}
       /\ \A j \in RowsBefore(2, v) : follow_up_logs[j].status = "failed"
       /\ \E ch \in {"email", "sms"} : Attempted(2, v, ch)

\* C4 as stated: among the visitors with earlier rows for the campaign, an invocation
\* takes up exactly the otherwise-eligible ones whose last row is `failed`.
C4_LastEntryDecides ==
  \A n \in DOMAIN history : \A v \in Visitors :
    (history[n].response.status # 500 /\ RowsBefore(n, v) # {})
    => ( v \in Range(history[n].visitors)
         <=> ( /\ PassesFilters(n, v) /\ Selects(history[n].req, v)
               /\ follow_up_logs[Max(RowsBefore(n, v))].status = "failed" ) )

\* C4 amended: it takes up exactly the otherwise-eligible ones all of whose rows are
\* `failed`; a visitor with a `sent` row gets no transport call, whatever their last row.
C4_AllFailedDecides ==
  \A n \in DOMAIN history : \A v \in Visitors :
    (history[n].response.status # 500 /\ RowsBefore(n, v) # {})
    => /\ v \in Range(history[n].visitors)
            <=> ( /\ PassesFilters(n, v) /\ Selects(history[n].req, v)
                  /\ \A j \in RowsBefore(n, v) : follow_up_logs[j].status = "failed" )
       /\ (\E j \in RowsBefore(n, v) : follow_up_logs[j].status = "sent")
            => \A ch \in {"email", "sms"} : ~Attempted(n, v, ch)

\* After a run in which one channel of a visitor was sent and the other failed (the
\* failed row being the last), a second invocation that names the visitor has finished.
C4_Witness ==
  /\ Len(history) = 2
  /\ history[2].response.status = 200
  /\ \E v \in Visitors :
       /\ Selects(history[2].req, v) /\ PassesFilters(2, v)
       /\ \E j \in RowsBefore(2, v) : follow_up_logs[j].status = "sent"
       /\ follow_up_logs[Max(RowsBefore(2, v))].status = "failed"
       /\ v \notin Range(history[2].visitors)

\* C5: after an invocation that returned with no failure, the next invocation with the
\* same arguments and unchanged data resolves no visitor, sends nothing, logs nothing.
C5_RerunAfterSuccessIsNoOp ==
  \A n \in DOMAIN history :
    ( /\ n + 1 \in DOMAIN history
      /\ history[n].response.status = 200
      /\ history[n].response.failed <= 0
      /\ history[n + 1].req = history[n].req
      /\ history[n + 1].unsubscribed = history[n].unsubscribed )
    => /\ history[n + 1].visitors = <<>>
       /\ history[n + 1].response.sent = 0
       /\ \A k \in DOMAIN follow_up_logs : follow_up_logs[k].send # n + 1

\* The campaign and the property the last rpc was called with.
RpcCampaign == CampaignRow(eligibleVisitors.campaign_id_param)
InPropertyScope(v) == PropertyFilter(v, RpcCampaign, eligibleVisitors.property_id_param)
NoPriorLog(v) ==
  \A k \in DOMAIN follow_up_logs :
    ~(follow_up_logs[k].visitor_id = v /\ follow_up_logs[k].campaign_id = eligibleVisitors.campaign_id_param)

\* What the trigger condition asks of a visitor, read off the feedback table.
TriggerHolds(tc, v) ==
  CASE tc = "interested" -> (\E k \in DOMAIN feedback[v] : feedback[v][k] = "t")
    [] tc = "no_feedback" -> feedback[v] = <<>>
    [] tc \in {"all", "manual"} -> TRUE
    [] OTHER -> FALSE

\* C6: with no prior log rows for the campaign and no matching unsubscribe, the visitors
\* the resolver returns are exactly the property-scoped visitors the trigger condition
\* names: interested -> a feedback row with interested = true, no_feedback -> no feedback
\* row, all / manual -> everyone in scope.
C6_TriggerFilterCorrect ==
  ( /\ eligibleVisitors.called
    /\ RpcCampaign.id # NULL
    /\ \A v \in Visitors : NoPriorLog(v) /\ ~EmailUnsubscribed(v) /\ ~SmsUnsubscribed(v) )
  => VisitorIdsOf(eligibleVisitors.rows)
       = {v \in Visitors : InPropertyScope(v) /\ TriggerHolds(RpcCampaign.trigger_condition, v)}

\* The resolver ran for an `interested` campaign over a visitor with a true and a false
\* feedback row, and returned that visitor.
C6_Witness ==
  /\ eligibleVisitors.called
  /\ RpcCampaign.trigger_condition = "interested"
  /\ \A v \in Visitors : NoPriorLog(v) /\ ~EmailUnsubscribed(v) /\ ~SmsUnsubscribed(v)
  /\ \E v \in Visitors : feedback[v] = <<"f", "t">> /\ v \in VisitorIdsOf(eligibleVisitors.rows)
  /\ \E v \in Visitors : InPropertyScope(v) /\ v \notin VisitorIdsOf(eligibleVisitors.rows)

\* C7: no invocation calls the email transport for, or writes an email row for, a visitor
\* whose email was on an unsubscribe row of type email or both when it resolved.
C7_EmailUnsubscribeSuppressed ==
  /\ \A k \in DOMAIN calls :
       calls[k].channel = "email" => calls[k].visitor_id \notin history[calls[k].send].emailUnsubscribed
  /\ \A k \in DOMAIN follow_up_logs :
       follow_up_logs[k].message_type = "email"
         => follow_up_logs[k].visitor_id \notin history[follow_up_logs[k].send].emailUnsubscribed

\* An invocation sending email finished; it left out an unsubscribed visitor who has an
\* email address and it called the email transport for another visitor.
C7_Witness ==
  \E n \in DOMAIN history :
    /\ history[n].response.status = 200
    /\ "email" \in EffectiveChannels(n)
    /\ \E v \in history[n].emailUnsubscribed : visitors[v].email # 0 /\ Selects(history[n].req, v)
    /\ \E v \in Visitors : Attempted(n, v, "email")

\* The channels on which unsubscribes still allow the visitor to be reached.
OpenChannels(v, mt) ==
  {ch \in Channels(mt) : (ch = "email" => ~EmailUnsubscribed(v)) /\ (ch = "sms" => ~SmsUnsubscribed(v))}

\* C8: an unsubscribe removes a visitor only for the channel it names: a visitor in scope,
\* passing the trigger filter and without an earlier row stays in the resolver's result as
\* long as the campaign's message type has a channel they have not unsubscribed from.
C8_UnsubscribeIsPerChannel ==
  ( eligibleVisitors.called /\ RpcCampaign.id # NULL )
  => \A v \in Visitors :
       ( /\ InPropertyScope(v)
         /\ TriggerHolds(RpcCampaign.trigger_condition, v)
         /\ NoPriorLog(v)
         /\ OpenChannels(v, RpcCampaign.message_type) # {} )
       => v \in VisitorIdsOf(eligibleVisitors.rows)

\* The visitors an invocation with a non-empty visitorIds list may dispatch to.
Narrowed(n) == history[n].eligible \cap Range(history[n].req.visitorIds)

\* C9: with a non-empty visitorIds list E, an invocation dispatches to exactly the
\* eligible visitors that are in E: its visitor list is that set, and every transport
\* call and log row of it is for a visitor in that set.
C9_ExplicitNarrowing ==
  \A n \in DOMAIN history :
    (history[n].req.hasVisitorIds /\ Len(history[n].req.visitorIds) > 0 /\ history[n].response.status # 500)
    => /\ Range(history[n].visitors) = Narrowed(n)
       /\ \A k \in DOMAIN calls : calls[k].send = n => calls[k].visitor_id \in Narrowed(n)
       /\ \A k \in DOMAIN follow_up_logs :
            follow_up_logs[k].send = n => follow_up_logs[k].visitor_id \in Narrowed(n)

\* An invocation with visitorIds = [1] finished: both visitors were eligible, visitor 1
\* was contacted, visitor 2 was not.
C9_Witness ==
  \E n \in DOMAIN history :
    /\ history[n].req.hasVisitorIds /\ history[n].req.visitorIds = <<1>>
    /\ history[n].eligible = Visitors
    /\ history[n].response.status = 200
    /\ \E ch \in {"email", "sms"} : Attempted(n, 1, ch)

RowsOf(n, v) == {k \in DOMAIN follow_up_logs : follow_up_logs[k].send = n /\ follow_up_logs[k].visitor_id = v}

\* C10: an invocation sending `both` to a visitor with an email address and no phone
\* number writes exactly one row for that visitor, an email row, and never calls the sms
\* transport for them.
C10_PartialChannelIndependence ==
  \A n \in DOMAIN history : \A v \in Visitors :
    ( /\ history[n].response.status = 200
      /\ v \in Range(history[n].visitors)
      /\ EffectiveChannels(n) = {"email", "sms"}
      /\ visitors[v].email # 0 /\ visitors[v].phone = 0 )
    => /\ Cardinality(RowsOf(n, v)) = 1
       /\ \A k \in RowsOf(n, v) : follow_up_logs[k].message_type = "email"
                                  /\ follow_up_logs[k].status \in {"sent", "failed"}
       /\ ~Attempted(n, v, "sms")

CallsOf(n, v, ch) ==
  {k \in DOMAIN calls : calls[k].send = n /\ calls[k].visitor_id = v /\ calls[k].channel = ch}

Contact(v, ch) == IF ch = "email" THEN visitors[v].email ELSE visitors[v].phone

\* C11: in a finished invocation every visitor it resolved has exactly one transport call
\* on each channel of the effective message type for which they have contact data,
\* whatever the outcomes of the other calls.
C11_OneAttemptPerChannel ==
  \A n \in DOMAIN history : \A v \in Visitors : \A ch \in {"email", "sms"} :
    ( /\ history[n].response.status = 200
      /\ v \in Range(history[n].visitors)
      /\ ch \in EffectiveChannels(n)
      /\ Contact(v, ch) # 0 )
    => Cardinality(CallsOf(n, v, ch)) = 1

\* The transport calls of invocation n, in the order they were made.
CallsOfSend(n) == SelectSeq(calls, LAMBDA c : c.send = n)

\* C12: the response of a finished invocation has sent = its transport calls that
\* succeeded, failed = its calls that failed, and errors = one description per failed
\* call, in order; a skipped visitor/channel made no call and so counts nowhere.
C12_ResultCounts ==
  \A n \in DOMAIN history :
    history[n].response.status = 200
    => LET cs == CallsOfSend(n)
           failedCalls == SelectSeq(cs, LAMBDA c : ~c.success)
           response == history[n].response
       IN /\ response.sent = Len(SelectSeq(cs, LAMBDA c : c.success))
          /\ IF response.failed = -1
             THEN cs = <<>> /\ response.errors = <<>>
             ELSE /\ response.failed = Len(failedCalls)
                  /\ Len(response.errors) = response.failed
                  /\ \A k \in DOMAIN failedCalls :
                       response.errors[k] = [channel |-> failedCalls[k].channel,
                                             to |-> failedCalls[k].to,
                                             error |-> TransportResult(FALSE).error]

\* An invocation finished with a call that succeeded, a call that failed and a visitor
\* skipped on a channel of the effective message type for want of contact data.
C12_Witness ==
  \E n \in DOMAIN history :
    /\ history[n].response.status = 200
    /\ history[n].response.sent >= 1
    /\ history[n].response.failed >= 1
    /\ \E v \in Range(history[n].visitors) : \E ch \in EffectiveChannels(n) :
         Contact(v, ch) = 0 /\ CallsOf(n, v, ch) = {}

\* The campaign of invocation n does not exist, or its admin does not.
NotFound(n) ==
  LET c == CampaignRow(history[n].req.campaignId)
  IN c.id = NULL \/ c.admin_id \notin admins

MadeByInvocation(n) ==
  {k \in DOMAIN calls : calls[k].send = n} \cup
  {k \in DOMAIN follow_up_logs : follow_up_logs[k].send = n}

\* C13: an invocation whose campaign id resolves to no campaign, or whose campaign has no
\* admin, answers with the error response; it loops over no visitor, calls no transport
\* and writes no row.
C13_NotFoundAborts ==
  \A n \in DOMAIN history :
    NotFound(n)
    => /\ history[n].response.status = 500
       /\ ~history[n].response.success
       /\ history[n].visitors = <<>>
       /\ MadeByInvocation(n) = {}

\* One invocation was turned down for an unknown campaign and one for a campaign without
\* admin whose eligible set was not empty.
C13_Witness ==
  /\ \E n \in DOMAIN history : history[n].response.error = "Campaign not found"
  /\ \E n \in DOMAIN history :
       history[n].response.error = "Admin not found" /\ history[n].eligible # {}

\* The campaign of invocation n has an empty template for a channel of the effective type.
MissingTemplate(n) ==
  LET c == CampaignRow(history[n].req.campaignId)
  IN \/ "email" \in EffectiveChannels(n) /\ (c.email_subject = "" \/ c.email_template = "")
     \/ "sms" \in EffectiveChannels(n) /\ c.sms_template = ""

\* C14: an invocation that has visitors to contact but whose campaign lacks a template
\* for the effective message type calls no transport and does not answer with success.
C14_RefusesMissingTemplate ==
  \A n \in DOMAIN history :
    (MissingTemplate(n) /\ history[n].visitors # <<>>)
    => /\ \A k \in DOMAIN calls : calls[k].send # n
       /\ history[n].response.status # 200

\* C15: an invocation for an existing campaign whose resolved visitor list is empty
\* answers 200 with success, sent = 0 and no error; it made no transport call and wrote
\* no row.
C15_EmptyEligibilityNoOp ==
  \A n \in DOMAIN history :
    (~NotFound(n) /\ history[n].visitors = <<>>)
    => /\ history[n].response.status = 200
       /\ history[n].response.success
       /\ history[n].response.sent = 0
       /\ history[n].response.error = NULL
       /\ history[n].response.errors = <<>>
       /\ MadeByInvocation(n) = {}

\* After a first invocation left rows in the log, a second one resolved nobody and
\* answered; the log is as long as it was when the second one started.
C15_Witness ==
  /\ Len(history) = 2
  /\ history[2].visitors = <<>>
  /\ history[2].response.status = 200
  /\ history[2].logLen > 0
  /\ Len(follow_up_logs) = history[2].logLen

\* The value a mapping gives a name; the empty text when it has no entry for it.
Lookup(variables, name) ==
  IF \E k \in DOMAIN variables : variables[k].key = name
  THEN variables[CHOOSE k \in DOMAIN variables : variables[k].key = name].value
  ELSE <<>>

\* Rendering as section 4.1 describes it: one pass over the template, every placeholder
\* (blanks inside the braces ignored) replaced by the mapping's value or by nothing.
RECURSIVE RenderedOnce(_, _)
RenderedOnce(template, variables) ==
  IF template = <<>> THEN <<>>
  ELSE (IF Head(template).kind = "var"
        THEN Lookup(variables, Head(template).name)
        ELSE <<Head(template)>>)
       \o RenderedOnce(Tail(template), variables)

\* C16: the output of replaceTemplateVariables has every placeholder of the template,
\* matched with the blanks inside the braces trimmed, replaced by the mapping's value,
\* or by the empty string when the name is not in the mapping.
C16_RendersEveryPlaceholder ==
  (rendered.called /\ rendered.by = "replaceTemplateVariables")
  => rendered.result = RenderedOnce(rendered.template, rendered.variables)

\* The template holds only text and unpadded placeholders the mapping has entries for,
\* and no value uses the replacement pattern "$&".
PlainlyMapped(template, variables) ==
  /\ \A k \in DOMAIN template :
       template[k].kind = "var"
         => ~template[k].padded /\ \E j \in DOMAIN variables : variables[j].key = template[k].name
  /\ \A j \in DOMAIN variables : Text("$&") \notin Range(variables[j].value)

\* C17: a value that contains a placeholder of another mapped variable is inserted as it
\* is: the output is the one-pass rendering, whatever the order of the keys.
C17_SinglePass ==
  ( /\ rendered.called /\ rendered.by = "replaceTemplateVariables"
    /\ PlainlyMapped(rendered.template, rendered.variables) )
  => rendered.result = RenderedOnce(rendered.template, rendered.variables)

\* The twelve variables section 4.3 binds at dispatch.
DispatchVariables ==
  {"visitor_name", "visitor_email", "visitor_phone", "property_name", "property_address",
   "admin_name", "admin_email", "admin_phone", "visit_date", "feedback_rating",
   "feedback_comments", "interested"}

\* C18: content that serve rendered for a visitor whose data holds no placeholder text
\* contains no placeholder {{name}} of any of the twelve dispatch variables.
C18_DispatchBindsAllVariables ==
  ( /\ rendered.called /\ rendered.by = "serve"
    /\ \A j \in DOMAIN rendered.variables :
         \A k \in DOMAIN rendered.variables[j].value : rendered.variables[j].value[k].kind = "text" )
  => \A k \in DOMAIN rendered.result :
       ~(rendered.result[k].kind = "var" /\ ~rendered.result[k].padded
         /\ rendered.result[k].name \in DispatchVariables)

\* The transport call invocation n made last.
LastCallOf(n) == calls[Max({k \in DOMAIN calls : calls[k].send = n})]

\* C19: every step that changes follow_up_logs adds a row whose status is sent or failed
\* and whose channel is email or sms; the row is for the visitor, channel and recipient
\* of the transport call its invocation has just made, its status is sent exactly when
\* that call succeeded, and a failed row carries the call's error message.
C19_LogEntryWellFormed ==
  [][ follow_up_logs' # follow_up_logs
      => LET r == follow_up_logs'[Len(follow_up_logs')]
             c == LastCallOf(r.send)
         IN /\ r.status \in {"sent", "failed"}
            /\ r.message_type \in {"email", "sms"}
            /\ c.visitor_id = r.visitor_id /\ c.channel = r.message_type /\ c.to = r.recipient
            /\ (r.status = "sent") <=> c.success
            /\ (r.status = "failed") => (r.error_message = TransportResult(FALSE).error
                                          /\ r.error_message # NULL)
            /\ (r.status = "sent") => r.error_message = NULL ]_vars

\* The log holds a sent row and a failed row, one of them for email and one for sms.
C19_Witness ==
  \E j, k \in DOMAIN follow_up_logs :
    /\ follow_up_logs[j].status = "sent"
    /\ follow_up_logs[k].status = "failed" /\ follow_up_logs[k].error_message # NULL
    /\ follow_up_logs[j].message_type # follow_up_logs[k].message_type

\* C20: no step removes or changes a row of follow_up_logs: after every step the log is
\* the log before it, followed by the rows the step added.
C20_AppendOnly ==
  [][ /\ Len(follow_up_logs') >= Len(follow_up_logs)
      /\ \A k \in DOMAIN follow_up_logs : follow_up_logs'[k] = follow_up_logs[k] ]_vars

\* A first invocation left a failed row and a second, turned down for an unknown
\* campaign, has answered; or the second retried the failed visitor and wrote a new row
\* after the old one.
C20_Witness ==
  /\ Len(history) = 2
  /\ history[2].logLen > 0
  /\ \E j \in LogBefore(2) : follow_up_logs[j].status = "failed"
  /\ \/ history[2].response.status = 500
     \/ \E k \in DOMAIN follow_up_logs : \E j \in LogBefore(2) :
          follow_up_logs[k].send = 2 /\ SameTriple(follow_up_logs[j], follow_up_logs[k])

\* The rows invocation n wrote.
RowsOfSend(n) == {k \in DOMAIN follow_up_logs : follow_up_logs[k].send = n}

\* C21: when an invocation has answered, it has written one row per transport call it
\* made (as many rows as sent + failed), and every visitor it sent to successfully has
\* a sent row that suppresses them on the next run; also when the store rejects an insert.
C21_EveryAttemptRecorded ==
  \A n \in DOMAIN history :
    history[n].response.status = 200
    => /\ Cardinality(RowsOfSend(n)) = Len(CallsOfSend(n))
       /\ history[n].response.failed >= 0
            => Cardinality(RowsOfSend(n)) = history[n].response.sent + history[n].response.failed
       /\ \A k \in DOMAIN calls :
            (calls[k].send = n /\ calls[k].success)
            => AlreadySent(calls[k].visitor_id, history[n].req.campaignId)

\* C23: the visitors the resolver returns have the campaign's property when it is set
\* and the property_id_param when it is supplied; when both are set and differ nobody is
\* returned, and a visitor without property is returned only when neither is set.
C23_PropertyScopeIntersection ==
  (eligibleVisitors.called /\ RpcCampaign.id # NULL)
  => LET cp == RpcCampaign.property_id
         pid == eligibleVisitors.property_id_param
         returned == VisitorIdsOf(eligibleVisitors.rows)
     IN /\ \A v \in returned :
             /\ cp # NULL => visitors[v].property_id = cp
             /\ pid # NULL => visitors[v].property_id = pid
        /\ (cp # NULL /\ pid # NULL /\ cp # pid) => returned = {}
        /\ \A v \in Visitors :
             (visitors[v].property_id = NULL /\ (cp # NULL \/ pid # NULL)) => v \notin returned

\* The resolver ran for a campaign of property p1 with property_id_param p2 over a
\* visitor of p2 and a visitor of p1 whom nothing else excludes, and returned nobody.
C23_Witness ==
  /\ eligibleVisitors.called
  /\ RpcCampaign.property_id = "p1"
  /\ eligibleVisitors.property_id_param = "p2"
  /\ eligibleVisitors.rows = <<>>
  /\ \E v, u \in Visitors :
       /\ visitors[v].property_id = "p2" /\ visitors[u].property_id = "p1"
       /\ \A x \in {v, u} :
            /\ TriggerHolds(RpcCampaign.trigger_condition, x)
            /\ NoPriorLog(x) /\ ~EmailUnsubscribed(x) /\ ~SmsUnsubscribed(x)

\* C24: the rpc answers a campaign id that names no campaign with a NotFound error, and
\* a campaign with an unknown trigger_condition with an InvalidConfiguration error.
C24_ResolverReportsErrors ==
  eligibleVisitors.called
  => /\ RpcCampaign.id = NULL => eligibleVisitors.error = "NotFound"
     /\ (RpcCampaign.id # NULL /\ RpcCampaign.trigger_condition \notin TriggerConditions)
          => eligibleVisitors.error = "InvalidConfiguration"

\* C30: no visitor id occurs in two rows of the resolver's result.
C30_NoDuplicateVisitors ==
  eligibleVisitors.called
  => \A j, k \in DOMAIN eligibleVisitors.rows :
       j # k => eligibleVisitors.rows[j].visitor_id # eligibleVisitors.rows[k].visitor_id

\* C29: an invocation whose request carries visitorIds as an empty list resolves no
\* visitor, calls no transport and writes no row.
C29_EmptySelectionSendsNothing ==
  \A n \in DOMAIN history :
    (history[n].req.hasVisitorIds /\ history[n].req.visitorIds = <<>>)
    => /\ history[n].visitors = <<>>
       /\ MadeByInvocation(n) = {}

\* C26: on a channel whose provider credentials are not set, a call of the transport
\* does not reach the provider's API and reports success, and the row logged for it has
\* status sent.
C26_SimulationMode ==
  /\ \A k \in DOMAIN calls :
       ~Configured(calls[k].channel) => (~calls[k].fetched /\ calls[k].success)
  /\ \A k \in DOMAIN follow_up_logs :
       ~Configured(follow_up_logs[k].message_type) => follow_up_logs[k].status = "sent"

\* C22: every invocation that has resolved its visitors eventually answers, also when a
\* provider never responds to a call (the call being cut off and recorded as failed).
C22_EveryInvocationReturns ==
  \A n \in 1..MaxSends :
    (Len(history) >= n) ~> (Len(history) >= n /\ history[n].response.status # 0)

\* C27: when an invocation starts a transport call, it has written one row for each
\* call it made before; and a call of sendSMS for a visitor who also gets the email is
\* directly preceded, among the invocation's calls, by that visitor's call of sendEmail.
C27_LogBeforeNext ==
  [][ Len(calls') > Len(calls)
      => LET c == calls'[Len(calls')]
             earlier == {k \in DOMAIN calls : calls[k].send = c.send}
         IN /\ Cardinality(RowsOfSend(c.send)) = Cardinality(earlier)
            /\ \A k \in earlier :
                 \E j \in RowsOfSend(c.send) :
                   /\ follow_up_logs[j].visitor_id = calls[k].visitor_id
                   /\ follow_up_logs[j].message_type = calls[k].channel
            /\ ( /\ c.channel = "sms"
                 /\ "email" \in EffectiveChannels(c.send)
                 /\ Contact(c.visitor_id, "email") # 0 )
               => /\ earlier # {}
                  /\ calls[Max(earlier)].visitor_id = c.visitor_id
                  /\ calls[Max(earlier)].channel = "email" ]_vars

\* The invocation has gone through its whole visitor list and answered.
Processed(n) == history[n].response.status = 200 /\ history[n].response.failed >= 0

\* C28: an invocation's visitor list is the eligible set of the moment it started; each
\* of its transport calls is for a visitor of that list; and when it has answered it has
\* called the transport for every visitor of the list on every channel they can be
\* reached on, whatever unsubscribe, feedback or log rows were added in the meantime.
C28_EligibilitySnapshot ==
  \A n \in DOMAIN history :
    /\ ~(history[n].req.hasVisitorIds /\ Len(history[n].req.visitorIds) > 0)
         => Range(history[n].visitors) = history[n].eligible
    /\ \A k \in DOMAIN calls :
         calls[k].send = n => calls[k].visitor_id \in Range(history[n].visitors)
    /\ Processed(n)
         => \A v \in Range(history[n].visitors) : \A ch \in EffectiveChannels(n) :
              Contact(v, ch) # 0 => Attempted(n, v, ch)

\* An invocation has answered after emailing a visitor whom the resolver no longer
\* returned at the moment of the call, and not because of a sent row: the visitor had
\* unsubscribed or submitted feedback after the invocation started.
C28_Witness ==
  \E n \in DOMAIN history :
    /\ Processed(n)
    /\ \E k \in DOMAIN calls :
         /\ calls[k].send = n /\ calls[k].channel = "email" /\ calls[k].returned
         /\ ~calls[k].eligibleNow
         /\ calls[k].visitor_id \in history[n].eligible
         /\ ~AlreadySent(calls[k].visitor_id, history[n].req.campaignId)

\* The positions of a template that hold a placeholder with something between its
\* braces, and those that hold one with the (trimmed) name.
Placeholders(template) ==
  {k \in DOMAIN template : template[k].kind = "var" /\ template[k] # Var("", FALSE)}
PlaceholdersNamed(template, name) == {k \in Placeholders(template) : template[k].name = name}
Min(S) == CHOOSE x \in S : \A y \in S : x <= y

\* The template has a placeholder whose name is not an available variable.
HasInvalidName(template) ==
  \E k \in Placeholders(template) : template[k].name \notin AVAILABLE_TEMPLATE_VARIABLES

\* What C25 says of one template and the validation the schema made of it.
ValidatedAsClaimed(template, v) ==
  LET names == v.extractedVariables
  IN /\ Range(names) = {template[k].name : k \in Placeholders(template)}
     /\ \A i, j \in DOMAIN names :
          i < j => Min(PlaceholdersNamed(template, names[i])) < Min(PlaceholdersNamed(template, names[j]))
     /\ Range(v.validVariables) = Range(names) \cap AVAILABLE_TEMPLATE_VARIABLES
     /\ Range(v.invalidVariables) = Range(names) \ AVAILABLE_TEMPLATE_VARIABLES
     /\ Len(v.validVariables) + Len(v.invalidVariables) = Len(names)
     /\ v.isValid <=> (v.invalidVariables = <<>>)

\* C25: the names extracted from a submitted template are its placeholders' trimmed
\* names, each once, in the order of their first occurrence; the validation puts the
\* available ones in validVariables and the others in invalidVariables and is valid
\* exactly when there are no others; and a form whose email or sms template has a name
\* that is not available is not saved: the campaigns table stays as it was.
C25_TemplateVariableValidation ==
  form.submitted
  => /\ form.emailValidation.called
          => ValidatedAsClaimed(form.formData.email_template, form.emailValidation)
     /\ form.smsValidation.called
          => ValidatedAsClaimed(form.formData.sms_template, form.smsValidation)
     /\ (HasInvalidName(form.formData.email_template) \/ HasInvalidName(form.formData.sms_template))
          => /\ ~form.saved
             /\ form.issues \cap {"email_template", "sms_template"} # {}
             /\ follow_up_campaigns = {SavedCampaign}

\* A form was submitted whose email template is "{{ visitor_name }}{{unknown}}{{visitor_name}}":
\* the names extracted are visitor_name and unknown, in this order, and it was not saved.
C25_Witness ==
  /\ form.submitted
  /\ form.formData.email_template =
       <<Var("visitor_name", TRUE), Var("unknown", FALSE), Var("visitor_name", FALSE)>>
  /\ form.emailValidation.extractedVariables = <<"visitor_name", "unknown">>
  /\ form.emailValidation.validVariables = <<"visitor_name">>
  /\ form.emailValidation.invalidVariables = <<"unknown">>
  /\ ~form.saved

====
